---- MODULE Spec2Model ----
(***************************************************************************)
(* A model of the GST billing backend: the invoice number allocator        *)
(* (utils/invoiceNumberGenerator.js), the GST splitter and the invoice     *)
(* type classifier (utils/gstCalculator.js), and the createInvoice and     *)
(* deleteInvoice handlers (controllers/invoiceController.js) running as    *)
(* concurrent requests against the Business and Invoice collections.       *)
(*                                                                         *)
(* Every `await` of a handler is one atomic step on the database; the      *)
(* code between two awaits runs without interleaving (one Node.js event    *)
(* loop), so it belongs to the step of the await that ends it.             *)
(*                                                                         *)
(* Money: the code computes with JavaScript Numbers.  The model keeps a    *)
(* money value as an integer count of 1/MoneyScale currency units (1/200), *)
(* so that the divisions by 100 and by 2 of calculateGST are exact for     *)
(* every whole-currency input.  Quantities, GST rates and counters are     *)
(* plain integers.                                                         *)
(*                                                                         *)
(* Scope: the numbering specifications (Spec, SeqSpec, OneSpec) end        *)
(* createInvoice at Invoice.create, follow no document ids and take        *)
(* deleteInvoice's findOne and deleteOne as one step.  ShopSpec adds the   *)
(* product steps of createInvoice (lines 147-166) and getTaxSummary;       *)
(* PaySpec adds document ids and recordPayment, updateInvoice and          *)
(* deleteInvoice with one step per await.  FilingSpec adds the sales       *)
(* register and the GSTR-1 report, LiveSpec the fairness of the steps of   *)
(* requests in progress.  The customer usage count (lines 168-176) writes  *)
(* only the Customer collection and is left out.                           *)
(***************************************************************************)
EXTENDS Integers, Sequences, FiniteSets, Bags, TLC

VARIABLES
    businesses,   \* Business collection: businessId -> stored document
    invoices,     \* Invoice collection, in insertion (createdAt) order
    request,      \* per request slot: position in createInvoice and its locals
    lastIssued,   \* history: businessId -> counter of the number last returned
                  \*          by generateInvoiceNumber (0: none yet)
    counterAtStart, \* history, kept by the sequential specification: request ->
                  \*          the stored invoiceCounter when the request began
    calcIn,       \* input last given to a pure function of gstCalculator.js
    calcOut,      \* their result
    payments,     \* Payment collection: the bag of its records
    products,     \* Product collection, in insertion order
    worker,       \* per slot: a running recordPayment, updateInvoice or
                  \*          deleteInvoice request and its locals
    report,       \* the response of the last report request
    carried       \* history: the <<businessId, invoiceNumber>> of every invoice
                  \*          that has been stored, deleted invoices included

vars == <<businesses, invoices, request, lastIssued, counterAtStart, calcIn, calcOut,
          payments, products, worker, report, carried>>

ledgerVars == <<payments, products, worker, report>>

dbVars == <<businesses, invoices, request, lastIssued, counterAtStart,
            payments, products, worker, report, carried>>

calcVars == <<calcIn, calcOut>>

-----------------------------------------------------------------------------
(* Bounds of the model *)

\* the increment-and-check loop is cut off at this counter value, in the
\* concurrent specification and in the sequential one
MaxCounter == 2

MaxSeqCounter == 3

\* taxable amounts (whole currency units) tried on calculateGST: 0..MaxTaxable
MaxTaxable == 4

\* invoice amounts tried around the B2CL threshold: threshold -/+ MaxDelta
MaxDelta == 2

\* GSTIN strings of up to this many characters
MaxGstinLen == 2

\* instants per calendar day: a date is a count of instants, and the first
\* and the last instant of day d are d * TicksPerDay and (d + 1) * TicksPerDay - 1
TicksPerDay == 2

\* Payment records tried on the ledger specification
MaxPayments == 4

Requests == {"r1", "r2"}

Workers == {"w1", "w2"}

Businesses == {"b1", "b2"}

-----------------------------------------------------------------------------
(* Program constants *)

\* new Date().getFullYear(); the model runs within one calendar year
CurrentYear == 2025

GST_RATES == {0, 5, 12, 18, 28}

B2CL_THRESHOLD == 250000

\* denominators of calculateGST: gstAmount = x / 100, cgst = gstAmount / 2
MoneyScale == 100 * 2

Money(x) == x * MoneyScale

-----------------------------------------------------------------------------
(* JavaScript strings and values *)

\* String(n): the decimal digits of a non-negative integer
RECURSIVE ToDigits(_)
ToDigits(n) == IF n < 10 THEN <<n>> ELSE ToDigits(n \div 10) \o <<n % 10>>

\* String.prototype.padStart(targetLength, padChar)
RECURSIVE padStart(_, _, _)
padStart(s, targetLength, padChar) ==
    IF Len(s) >= targetLength THEN s
    ELSE padStart(<<padChar>> \o s, targetLength, padChar)

\* parseInt(s, 10) of a digit string
RECURSIVE parseInt(_)
parseInt(s) ==
    IF Len(s) = 0 THEN 0
    ELSE 10 * parseInt(SubSeq(s, 1, Len(s) - 1)) + s[Len(s)]

\* String.prototype.trim(): a string is a sequence of characters
RECURSIVE trimStart(_)
trimStart(s) == IF Len(s) > 0 /\ Head(s) = " " THEN trimStart(Tail(s)) ELSE s

RECURSIVE trimEnd(_)
trimEnd(s) ==
    IF Len(s) > 0 /\ s[Len(s)] = " " THEN trimEnd(SubSeq(s, 1, Len(s) - 1)) ELSE s

trim(s) == trimEnd(trimStart(s))

\* an optional string field of a request body: undefined/null, or a string
Undefined == [isString |-> FALSE, chars |-> <<>>]

Str(s) == [isString |-> TRUE, chars |-> s]

\* JavaScript truthiness of an optional string: undefined, null and "" are falsy
Truthy(v) == v.isString /\ Len(v.chars) > 0

\* a || b on state names; the absent state is the empty string (falsy like undefined)
OrElse(a, b) == IF a # "" THEN a ELSE b

-----------------------------------------------------------------------------
(* utils/gstCalculator.js *)

calculateGST_NoHalving(taxableAmount, gstRate, businessState, customerState) ==
    LET gstAmount == (taxableAmount * gstRate) \div 100
    IN  IF businessState = customerState
        THEN [cgst |-> gstAmount, sgst |-> gstAmount, igst |-> 0]
        ELSE [cgst |-> 0, sgst |-> 0, igst |-> gstAmount]

calculateGST_IgstHalved(taxableAmount, gstRate, businessState, customerState) ==
    LET gstAmount == (taxableAmount * gstRate) \div 100
    IN  IF businessState = customerState
        THEN [cgst |-> gstAmount \div 2, sgst |-> gstAmount \div 2, igst |-> 0]
        ELSE [cgst |-> 0, sgst |-> 0, igst |-> gstAmount \div 2]

calculateGST_Both(taxableAmount, gstRate, businessState, customerState) ==
    LET gstAmount == (taxableAmount * gstRate) \div 100
    IN  IF businessState = customerState
        THEN [cgst |-> gstAmount \div 2, sgst |-> gstAmount \div 2, igst |-> 0]
        ELSE [cgst |-> gstAmount \div 2, sgst |-> gstAmount \div 2, igst |-> gstAmount]

calculateGST(taxableAmount, gstRate, businessState, customerState) ==
    LET gstAmount == (taxableAmount * gstRate) \div 100
    IN  IF businessState = customerState
        THEN [cgst |-> gstAmount \div 2, sgst |-> gstAmount \div 2, igst |-> 0]
        ELSE [cgst |-> 0, sgst |-> 0, igst |-> gstAmount]

determineInvoiceType_AtThreshold(gstin, businessState, customerState, amount) ==
    IF Truthy(gstin) /\ trim(gstin.chars) # <<>> THEN "B2B"
    ELSE IF businessState # customerState /\ amount >= Money(B2CL_THRESHOLD) THEN "B2CL"
    ELSE "B2CS"

determineInvoiceType(gstin, businessState, customerState, amount) ==
    IF Truthy(gstin) /\ trim(gstin.chars) # <<>> THEN "B2B"
    ELSE IF businessState # customerState /\ amount > Money(B2CL_THRESHOLD) THEN "B2CL"
    ELSE "B2CS"

-----------------------------------------------------------------------------
(* models/Invoice.js *)

\* validators of invoiceItemSchema
ItemSchemaValid(it) ==
    /\ it.productName # "" /\ it.hsnCode # "" /\ it.unit # ""
    /\ it.quantity >= 0 /\ it.rate >= 0 /\ it.discount >= 0
    /\ it.gstRate \in GST_RATES

\* validators of invoiceSchema, run by Invoice.create before the insert
InvoiceSchemaValid(doc) ==
    /\ doc.customerDetails.name # ""
    /\ doc.invoiceType \in {"B2B", "B2CS", "B2CL"}
    /\ \A i \in DOMAIN doc.items : ItemSchemaValid(doc.items[i])

preSave_StaleDue(doc) ==
    [doc EXCEPT !.paymentStatus =
                    IF doc.amountPaid = 0 THEN "unpaid"
                    ELSE IF doc.amountPaid >= doc.grandTotal THEN "paid"
                    ELSE "partial"]

\* invoiceSchema.pre('save')
preSave(doc) ==
    [doc EXCEPT !.amountDue = doc.grandTotal - doc.amountPaid,
                !.paymentStatus =
                    IF doc.amountPaid = 0 THEN "unpaid"
                    ELSE IF doc.amountPaid >= doc.grandTotal THEN "paid"
                    ELSE "partial"]

\* the unique index on invoiceNumber: an insert of a number some stored
\* invoice (of any business) already carries is rejected
UniqueIndexAllows_NoIndex(coll, invoiceNumber) == TRUE

UniqueIndexAllows(coll, invoiceNumber) ==
    \A i \in DOMAIN coll : coll[i].invoiceNumber # invoiceNumber

\* the _id of an invoice in the specifications that do not follow ids
NoId == 0

\* a new ObjectId.  ObjectIds are never reused; an id that no stored document
\* and no running request refers to cannot be told from a new one, so the
\* least such id stands for it
FreshId(used) == CHOOSE n \in 1..(Cardinality(used) + 1) :
                    /\ n \notin used
                    /\ \A m \in 1..(n - 1) : m \in used

-----------------------------------------------------------------------------
(* Dates *)

\* an absent date of a request body (undefined, null, ''): falsy
NoDate == 0 - 1

\* new Date('YYYY-MM-DD') of the day numbered day: its first instant
DayStart(day) == day * TicksPerDay

\* the last instant of the calendar day, counted in UTC, that date lies in
EndOfDay(date) == (date \div TicksPerDay) * TicksPerDay + (TicksPerDay - 1)

\* the time zones a server process may run in: local time = UTC + tz instants
TimeZones == {0 - 1, 0, 1}

\* date.setHours(23, 59, 59, 999) sets the hours of the LOCAL time of the
\* process: the last instant of the local calendar day that date lies in
setHours(date, tz) ==
    ((date + tz) \div TicksPerDay) * TicksPerDay + (TicksPerDay - 1) - tz

\* new Date(): the model runs within one day, the day numbered 2
Now == DayStart(2) + 1

-----------------------------------------------------------------------------
(* controllers/invoiceController.js: the computation of createInvoice *)

RECURSIVE SumSeq(_)
SumSeq(s) == IF Len(s) = 0 THEN 0 ELSE Head(s) + SumSeq(Tail(s))

ProcessItem_TotalBeforeDiscount(item, business, customerDetails) ==
    LET itemSubtotal == item.quantity * item.rate
        itemDiscount == item.discount
        taxableAmount == itemSubtotal - itemDiscount
        customerState == OrElse(customerDetails.state, business.state)
        gstAmount == calculateGST(taxableAmount, item.gstRate,
                                  business.state, customerState)
    IN  [productName |-> item.productName,
         hsnCode |-> item.hsnCode,
         quantity |-> item.quantity,
         unit |-> item.unit,
         rate |-> item.rate,
         gstRate |-> item.gstRate,
         discount |-> itemDiscount,
         taxableAmount |-> taxableAmount,
         cgst |-> gstAmount.cgst,
         sgst |-> gstAmount.sgst,
         igst |-> gstAmount.igst,
         totalAmount |-> itemSubtotal + gstAmount.cgst + gstAmount.sgst
                         + gstAmount.igst]

\* the body of items.map(...)
ProcessItem(item, business, customerDetails) ==
    LET itemSubtotal == item.quantity * item.rate
        itemDiscount == item.discount
        taxableAmount == itemSubtotal - itemDiscount
        customerState == OrElse(customerDetails.state, business.state)
        gstAmount == calculateGST(taxableAmount, item.gstRate,
                                  business.state, customerState)
    IN  [productName |-> item.productName,
         hsnCode |-> item.hsnCode,
         quantity |-> item.quantity,
         unit |-> item.unit,
         rate |-> item.rate,
         gstRate |-> item.gstRate,
         discount |-> itemDiscount,
         taxableAmount |-> taxableAmount,
         cgst |-> gstAmount.cgst,
         sgst |-> gstAmount.sgst,
         igst |-> gstAmount.igst,
         totalAmount |-> taxableAmount + gstAmount.cgst + gstAmount.sgst
                         + gstAmount.igst]

StoredInvoiceType_NoFallback(customerDetails, business, grandTotal) ==
    IF ~Truthy(customerDetails.gstin)
    THEN determineInvoiceType(Undefined, business.state, customerDetails.state,
                              grandTotal)
    ELSE "B2B"

\* let invoiceType = 'B2B'; if (!customerDetails.gstin) invoiceType = determineInvoiceType(null, ...)
StoredInvoiceType(customerDetails, business, grandTotal) ==
    IF ~Truthy(customerDetails.gstin)
    THEN determineInvoiceType(Undefined, business.state,
                              OrElse(customerDetails.state, business.state),
                              grandTotal)
    ELSE "B2B"

\* the document createInvoice hands to Invoice.create
InvoiceDoc(body, business, businessId, invoiceNumber) ==
    LET cd == body.customerDetails
        processedItems == [i \in DOMAIN body.items |->
                              ProcessItem(body.items[i], business, cd)]
        subtotal == SumSeq([i \in DOMAIN body.items |->
                              body.items[i].quantity * body.items[i].rate])
        totalDiscount == SumSeq([i \in DOMAIN body.items |-> body.items[i].discount])
        totalCGST == SumSeq([i \in DOMAIN processedItems |-> processedItems[i].cgst])
        totalSGST == SumSeq([i \in DOMAIN processedItems |-> processedItems[i].sgst])
        totalIGST == SumSeq([i \in DOMAIN processedItems |-> processedItems[i].igst])
        grandTotal == subtotal - totalDiscount + totalCGST + totalSGST + totalIGST
    IN  [businessId |-> businessId,
         invoiceNumber |-> invoiceNumber,
         customerDetails |->
             [name |-> cd.name,
              gstin |-> IF Truthy(cd.gstin) THEN cd.gstin.chars ELSE <<>>,
              state |-> OrElse(cd.state, business.state)],
         items |-> processedItems,
         subtotal |-> subtotal,
         totalDiscount |-> totalDiscount,
         totalCGST |-> totalCGST,
         totalSGST |-> totalSGST,
         totalIGST |-> totalIGST,
         grandTotal |-> grandTotal,
         invoiceType |-> StoredInvoiceType(cd, business, grandTotal),
         paymentStatus |-> "unpaid",
         amountPaid |-> 0,
         amountDue |-> 0,
         invoiceDate |-> IF body.invoiceDate # NoDate THEN body.invoiceDate ELSE Now,
         dueDate |-> body.dueDate,
         notes |-> trim(body.notes),
         isDraft |-> body.isDraft]

-----------------------------------------------------------------------------
(* utils/invoiceNumberGenerator.js *)

\* `${prefix}-${year}-${String(counter).padStart(4, '0')}`: the three
\* hyphen-separated segments of the number
FormatInvoiceNumber(prefix, year, counter) ==
    <<prefix, year, padStart(ToDigits(counter), 4, 0)>>

\* invoiceNumber matches the regex ^prefix-year-
MatchesPrefixYear(invoiceNumber, prefix, year) ==
    invoiceNumber[1] = prefix /\ invoiceNumber[2] = year

\* parseInt(invoiceNumber.split('-').pop(), 10)
LastNumber(invoiceNumber) == parseInt(invoiceNumber[Len(invoiceNumber)])

\* Invoice.findOne({businessId, invoiceNumber: /^prefix-year-/}).sort({createdAt: -1}):
\* the index in the collection of the latest such invoice, 0 when there is none
LatestInvoice(coll, businessId, prefix, year) ==
    LET hits == {i \in DOMAIN coll :
                    /\ coll[i].businessId = businessId
                    /\ MatchesPrefixYear(coll[i].invoiceNumber, prefix, year)}
    IN  IF hits = {} THEN 0 ELSE CHOOSE i \in hits : \A j \in hits : j <= i

\* lines 44-50: the counter after the sync with the latest invoice
SyncedCounter(coll, businessId, prefix, year, invoiceCounter) ==
    LET latest == LatestInvoice(coll, businessId, prefix, year)
    IN  IF latest # 0 /\ LastNumber(coll[latest].invoiceNumber) > invoiceCounter
        THEN LastNumber(coll[latest].invoiceNumber)
        ELSE invoiceCounter

NextCounter_Stuck(invoiceCounter) == invoiceCounter

\* business.invoiceCounter += 1
NextCounter(invoiceCounter) == invoiceCounter + 1

\* Invoice.exists({ invoiceNumber })
InvoiceExists(coll, invoiceNumber) ==
    \E i \in DOMAIN coll : coll[i].invoiceNumber = invoiceNumber

-----------------------------------------------------------------------------
(* Request bodies of POST /api/invoices tried by the concurrent model *)

Widget(gstRate) ==
    [productName |-> "Widget", hsnCode |-> "8471", unit |-> "PCS",
     quantity |-> 2, rate |-> Money(500), gstRate |-> gstRate, discount |-> 0]

Item(productName, quantity, rate, discount, gstRate) ==
    [productName |-> productName, hsnCode |-> "8471", unit |-> "PCS",
     quantity |-> quantity, rate |-> rate, gstRate |-> gstRate,
     discount |-> discount]

Walkin(name) ==
    [defined |-> TRUE, name |-> name, gstin |-> Undefined, state |-> ""]

\* a well-formed body
OkBody == [customerDetails |-> Walkin("Asha"), items |-> <<Widget(18)>>,
           invoiceDate |-> NoDate, dueDate |-> NoDate, notes |-> <<>>,
           isDraft |-> FALSE]

\* a body whose item carries a gstRate outside the schema's enum: it passes
\* the handler's own checks and fails the validators of Invoice.create
BadRateBody == [OkBody EXCEPT !.items = <<Widget(7)>>]

NoNameBody == [OkBody EXCEPT !.customerDetails = Walkin("")]

NoItemsBody == [OkBody EXCEPT !.items = <<>>]

\* the concurrent specification tries the bodies whose items are valid, the
\* sequential one also the body that fails in Invoice.create
Bodies == {OkBody, NoNameBody, NoItemsBody}

SeqBodies == Bodies \cup {BadRateBody}

-----------------------------------------------------------------------------
(* The state after construction *)

NoCalc == [op |-> "none"]

IdleRequest ==
    [pc |-> "idle", businessId |-> "none", body |-> NoItemsBody,
     business |-> [invoiceCounter |-> 0, invoicePrefix |-> "", state |-> ""],
     invoiceNumber |-> <<>>, attempts |-> 0,
     item |-> 0, existingProduct |-> 0, usageCount |-> 0,
     status |-> 0, message |-> ""]

\* a free slot for a recordPayment, updateInvoice or deleteInvoice request
IdleWorker ==
    [op |-> "none", pc |-> "idle", businessId |-> "none", invoiceId |-> 0,
     amount |-> 0, patch |-> [notes |-> Undefined, dueDate |-> NoDate],
     invoice |-> [paymentStatus |-> "none"],
     status |-> 0, message |-> ""]

NoReport == [op |-> "none"]

\* businessSchema defaults: invoicePrefix 'INV', invoiceCounter 0
BusinessDoc(b, prefix) ==
    [invoiceCounter |-> 0, invoicePrefix |-> prefix,
     state |-> IF b = "b1" THEN "Delhi" ELSE "Haryana"]

InitDb(prefixes) ==
    /\ businesses \in {[b \in Businesses |->
                            BusinessDoc(b, IF b = "b1" THEN "INV" ELSE pfx)] :
                        pfx \in prefixes}
    /\ invoices = <<>>
    /\ request = [p \in Requests |-> IdleRequest]
    /\ lastIssued = [b \in Businesses |-> 0]
    /\ counterAtStart = [p \in Requests |-> 0]
    /\ payments = EmptyBag
    /\ products = <<>>
    /\ worker = [w \in Workers |-> IdleWorker]
    /\ report = NoReport
    /\ carried = {}

\* both businesses keep the default prefix
Init == InitDb({"INV"}) /\ calcIn = NoCalc /\ calcOut = NoCalc

\* the second business keeps the default prefix or has chosen its own
SeqInit == InitDb({"INV", "GST"}) /\ calcIn = NoCalc /\ calcOut = NoCalc

-----------------------------------------------------------------------------
(* createInvoice, one action per await *)

\* the request after its last database step: the response, with the number
\* it was given and the count of its Invoice.create calls
Responded(r, status, message) ==
    [IdleRequest EXCEPT !.pc = "done", !.businessId = r.businessId,
                        !.body = r.body,
                        !.invoiceNumber = r.invoiceNumber,
                        !.attempts = r.attempts + 1,
                        !.status = status, !.message = message]

createInvoice_Start_NumberFirst(p, b, body) ==
    /\ request[p].pc = "idle"
    /\ IF ~body.customerDetails.defined \/ body.customerDetails.name = ""
       THEN /\ request' = [request EXCEPT ![p] =
                [IdleRequest EXCEPT !.pc = "done", !.businessId = b,
                                    !.status = 400,
                                    !.message = "Customer name is required"]]
            /\ UNCHANGED businesses
       ELSE IF Len(body.items) = 0
       THEN /\ request' = [request EXCEPT ![p] =
                [IdleRequest EXCEPT !.pc = "done", !.businessId = b,
                                    !.status = 400,
                                    !.message = "At least one item is required"]]
            /\ businesses' = [businesses EXCEPT ![b].invoiceCounter =
                                 NextCounter(businesses[b].invoiceCounter)]
       ELSE /\ request' = [request EXCEPT ![p] =
                [IdleRequest EXCEPT !.pc = "findLatest", !.businessId = b,
                                    !.body = body,
                                    !.business = businesses[b]]]
            /\ UNCHANGED businesses
    /\ UNCHANGED <<invoices, carried, lastIssued, calcVars, ledgerVars>>

\* lines 23-52: Business.findById, then the checks of the required fields
createInvoice_Start(p, b, body) ==
    /\ request[p].pc = "idle"
    /\ IF ~body.customerDetails.defined \/ body.customerDetails.name = ""
       THEN request' = [request EXCEPT ![p] =
                [IdleRequest EXCEPT !.pc = "done", !.businessId = b,
                                    !.status = 400,
                                    !.message = "Customer name is required"]]
       ELSE IF Len(body.items) = 0
       THEN request' = [request EXCEPT ![p] =
                [IdleRequest EXCEPT !.pc = "done", !.businessId = b,
                                    !.status = 400,
                                    !.message = "At least one item is required"]]
       ELSE request' = [request EXCEPT ![p] =
                [IdleRequest EXCEPT !.pc = "findLatest", !.businessId = b,
                                    !.body = body,
                                    !.business = businesses[b]]]
    /\ UNCHANGED <<businesses, invoices, carried, lastIssued, calcVars, ledgerVars>>

\* generateInvoiceNumber lines 26-50: Invoice.findOne of the latest invoice,
\* then the sync of the in-memory counter
generateInvoiceNumber_Sync(p) ==
    /\ request[p].pc = "findLatest"
    /\ LET r == request[p]
       IN  request' = [request EXCEPT
               ![p].pc = "exists",
               ![p].business.invoiceCounter =
                   SyncedCounter(invoices, r.businessId, r.business.invoicePrefix,
                                 CurrentYear, r.business.invoiceCounter)]
    /\ UNCHANGED <<businesses, invoices, carried, lastIssued, counterAtStart, calcVars, ledgerVars>>

\* generateInvoiceNumber lines 58-63: one turn of the loop, up to the answer
\* of Invoice.exists
generateInvoiceNumber_Exists(p, cap) ==
    /\ request[p].pc = "exists"
    /\ NextCounter(request[p].business.invoiceCounter) <= cap
    /\ LET r == request[p]
           counter == NextCounter(r.business.invoiceCounter)
           invoiceNumber == FormatInvoiceNumber(r.business.invoicePrefix,
                                                CurrentYear, counter)
       IN  request' = [request EXCEPT
               ![p].business.invoiceCounter = counter,
               ![p].invoiceNumber = invoiceNumber,
               ![p].pc = IF InvoiceExists(invoices, invoiceNumber)
                         THEN "exists" ELSE "save"]
    /\ UNCHANGED <<businesses, invoices, carried, lastIssued, counterAtStart, calcVars, ledgerVars>>

\* generateInvoiceNumber lines 64-69: business.save() writes the modified
\* path invoiceCounter, and the number is returned
generateInvoiceNumber_Save(p) ==
    /\ request[p].pc = "save"
    /\ LET r == request[p]
       IN  /\ businesses' = [businesses EXCEPT ![r.businessId].invoiceCounter =
                                r.business.invoiceCounter]
           /\ lastIssued' = [lastIssued EXCEPT ![r.businessId] =
                                r.business.invoiceCounter]
    /\ request' = [request EXCEPT ![p].pc = "create"]
    /\ UNCHANGED <<invoices, carried, counterAtStart, calcVars, ledgerVars>>

\* the ObjectIds that a stored invoice, a Payment record or a running
\* request refers to
UsedIds ==
    {invoices[i]._id : i \in DOMAIN invoices}
    \cup {payment.invoiceId : payment \in BagToSet(payments)}
    \cup {worker[w].invoiceId : w \in {v \in Workers : worker[v].pc # "idle"}}

\* lines 57-145 and the catch of lines 187-194: the totals, then
\* Invoice.create (validators, pre-save hook, insert under the unique index).
\* _id: the ObjectId of the new document.  withProducts: the request goes on
\* to the product steps of lines 147-166; the specifications of the invoice
\* numbering end the request here, with the response those steps lead to
createInvoice_Create(p, _id, withProducts) ==
    /\ request[p].pc = "create"
    /\ LET r == request[p]
           doc == InvoiceDoc(r.body, r.business, r.businessId, r.invoiceNumber)
       IN  IF ~InvoiceSchemaValid(doc)
           THEN /\ request' = [request EXCEPT ![p] =
                                  Responded(r, 500, "validation failed")]
                /\ UNCHANGED <<invoices, carried>>
           ELSE IF ~UniqueIndexAllows(invoices, r.invoiceNumber)
           THEN /\ request' = [request EXCEPT ![p] =
                                  Responded(r, 500, "duplicate key")]
                /\ UNCHANGED <<invoices, carried>>
           ELSE /\ invoices' = Append(invoices,
                                  [_id |-> _id,
                                   doc |-> preSave(doc),
                                   businessId |-> doc.businessId,
                                   invoiceNumber |-> doc.invoiceNumber])
                /\ carried' = carried \cup {<<doc.businessId, doc.invoiceNumber>>}
                /\ request' = [request EXCEPT ![p] =
                                  IF withProducts
                                  THEN [r EXCEPT !.pc = "findProduct", !.item = 1,
                                                 !.attempts = r.attempts + 1]
                                  ELSE Responded(r, 201, "Invoice created successfully")]
    /\ UNCHANGED <<businesses, lastIssued, counterAtStart, calcVars, ledgerVars>>

\* String.prototype.toLowerCase() on the product names of the model
toLowerCase(name) ==
    CASE name = "Widget" -> "widget"
      [] name = "WIDGET" -> "widget"
      [] OTHER -> name

\* Product.findOne({businessId, name: {$regex: `^${productName}$`, $options: 'i'}}):
\* the index of the first such product, 0 when there is none
FindProduct(coll, businessId, productName) ==
    LET hits == {i \in DOMAIN coll :
                    /\ coll[i].businessId = businessId
                    /\ toLowerCase(coll[i].name) = toLowerCase(productName)}
    IN  IF hits = {} THEN 0 ELSE CHOOSE i \in hits : \A j \in hits : i <= j

\* lines 148-152: Product.findOne for the current item of the request
createInvoice_FindProduct(p) ==
    /\ request[p].pc = "findProduct"
    /\ LET r == request[p]
           found == FindProduct(products, r.businessId,
                                r.body.items[r.item].productName)
       IN  request' = [request EXCEPT
               ![p].pc = "writeProduct",
               ![p].existingProduct = found,
               ![p].usageCount = IF found = 0 THEN 0 ELSE products[found].usageCount]
    /\ UNCHANGED <<businesses, invoices, carried, lastIssued, counterAtStart, calcVars,
                   payments, products, worker, report>>

\* lines 154-186: Product.create of a product not found, or the save of the
\* incremented usageCount of the one found; after the last item, the response
\* (the bodies carry no customerId, so lines 168-176 do nothing, and the
\* Invoice.findById of line 179 only reads)
createInvoice_WriteProduct(p) ==
    /\ request[p].pc = "writeProduct"
    /\ LET r == request[p]
           item == r.body.items[r.item]
       IN  /\ products' =
                  IF r.existingProduct = 0
                  THEN Append(products, [businessId |-> r.businessId,
                                         name |-> item.productName,
                                         hsnCode |-> item.hsnCode,
                                         usageCount |-> 1])
                  ELSE [products EXCEPT ![r.existingProduct].usageCount =
                                            r.usageCount + 1]
           /\ request' = [request EXCEPT ![p] =
                  IF r.item < Len(r.body.items)
                  THEN [r EXCEPT !.pc = "findProduct", !.item = r.item + 1]
                  ELSE [Responded(r, 201, "Invoice created successfully")
                           EXCEPT !.attempts = r.attempts]]
    /\ UNCHANGED <<businesses, invoices, carried, lastIssued, counterAtStart, calcVars,
                   payments, worker, report>>

\* the response is sent; the slot is free for the next request
createInvoice_Respond(p) ==
    /\ request[p].pc = "done"
    /\ request' = [request EXCEPT ![p] = IdleRequest]
    /\ counterAtStart' = [counterAtStart EXCEPT ![p] = 0]
    /\ UNCHANGED <<businesses, invoices, carried, lastIssued, calcVars, ledgerVars>>

\* deleteInvoice, lines 839-875: an invoice that is not paid is removed
deleteInvoice(b, i) ==
    /\ i \in DOMAIN invoices
    /\ invoices[i].businessId = b
    /\ invoices[i].doc.paymentStatus # "paid"
    /\ invoices' = [j \in 1..(Len(invoices) - 1) |->
                       IF j < i THEN invoices[j] ELSE invoices[j + 1]]
    /\ UNCHANGED <<businesses, request, lastIssued, counterAtStart, calcVars, ledgerVars,
                   carried>>

AllIdle == \A p \in Requests : request[p].pc = "idle"

\* requests of any businesses, their steps interleaved in any order
Start(p, b, body) ==
    createInvoice_Start(p, b, body) /\ UNCHANGED counterAtStart

Exists(p) == generateInvoiceNumber_Exists(p, MaxCounter)

\* no action of the numbering specifications refers to an invoice by its
\* _id: they leave the ids out (every invoice carries NoId) and pick the
\* invoice to delete by its place in the collection
Create(p) == createInvoice_Create(p, NoId, FALSE)

Next ==
    \/ \E p \in Requests, b \in Businesses, body \in Bodies : Start(p, b, body)
    \/ \E p \in Requests : generateInvoiceNumber_Sync(p)
    \/ \E p \in Requests : Exists(p)
    \/ \E p \in Requests : generateInvoiceNumber_Save(p)
    \/ \E p \in Requests : Create(p)
    \/ \E p \in Requests : createInvoice_Respond(p)
    \/ \E b \in Businesses, i \in DOMAIN invoices : deleteInvoice(b, i)

Spec == Init /\ [][Next]_vars

\* requests one after another: a request begins only when no other is in progress
SeqStart(p, b, body) ==
    /\ AllIdle
    /\ createInvoice_Start(p, b, body)
    /\ counterAtStart' = [counterAtStart EXCEPT ![p] = businesses[b].invoiceCounter]

SeqExists(p) == generateInvoiceNumber_Exists(p, MaxSeqCounter)

SeqDelete(b, i) == AllIdle /\ deleteInvoice(b, i)

SeqNext ==
    \/ \E p \in Requests, b \in Businesses, body \in SeqBodies : SeqStart(p, b, body)
    \/ \E p \in Requests : generateInvoiceNumber_Sync(p)
    \/ \E p \in Requests : SeqExists(p)
    \/ \E p \in Requests : generateInvoiceNumber_Save(p)
    \/ \E p \in Requests : Create(p)
    \/ \E p \in Requests : createInvoice_Respond(p)
    \/ \E b \in Businesses, i \in DOMAIN invoices : SeqDelete(b, i)

SeqSpec == SeqInit /\ [][SeqNext]_vars

-----------------------------------------------------------------------------
(* Termination of generateInvoiceNumber: interleaved requests that create a
   bounded number of invoices.  Node runs the continuation of every await
   whose database call has answered, so each step of a request that is in
   progress is taken in the end (weak fairness); no request has to arrive *)

Active == {q \in Requests : request[q].pc # "idle"}

\* a request arrives while the invoices stored and the requests in progress
\* are fewer than MaxCounter
LiveStart(p, b, body) ==
    /\ Len(invoices) + Cardinality(Active) < MaxCounter
    /\ Start(p, b, body)

LiveNext ==
    \/ \E p \in Requests, b \in Businesses, body \in Bodies : LiveStart(p, b, body)
    \/ \E p \in Requests : generateInvoiceNumber_Sync(p)
    \/ \E p \in Requests : Exists(p)
    \/ \E p \in Requests : generateInvoiceNumber_Save(p)
    \/ \E p \in Requests : Create(p)
    \/ \E p \in Requests : createInvoice_Respond(p)

LiveFairness ==
    \A p \in Requests :
        /\ WF_vars(generateInvoiceNumber_Sync(p))
        /\ WF_vars(Exists(p))
        /\ WF_vars(generateInvoiceNumber_Save(p))
        /\ WF_vars(Create(p))
        /\ WF_vars(createInvoice_Respond(p))

LiveSpec == Init /\ [][LiveNext]_vars /\ LiveFairness

-----------------------------------------------------------------------------
(* Invoice numbering: the claims *)

\* generateInvoiceNumber has returned its number to request p, which has not
\* yet called Invoice.create
HoldsNumber(p) == request[p].pc = "create"

\* the counters used by the stored invoices of a business under prefix and year
UsedCounters(coll, businessId, prefix, year) ==
    {LastNumber(coll[i].invoiceNumber) :
        i \in {j \in DOMAIN coll :
                  /\ coll[j].businessId = businessId
                  /\ MatchesPrefixYear(coll[j].invoiceNumber, prefix, year)}}

SetMax(S) == CHOOSE x \in S : \A y \in S : y <= x

\* C1: two createInvoice requests of the same business that are in progress
\* together never hold the same number returned by generateInvoiceNumber.
C1_ConcurrentNumbersDiffer ==
    \A p, q \in Requests :
        (/\ p # q
         /\ HoldsNumber(p) /\ HoldsNumber(q)
         /\ request[p].businessId = request[q].businessId)
        => request[p].invoiceNumber # request[q].invoiceNumber

\* C2: no two stored invoices carry the same invoiceNumber.
C2_InvoiceNumbersUnique ==
    \A i, j \in DOMAIN invoices :
        i # j => invoices[i].invoiceNumber # invoices[j].invoiceNumber

\* C2, its case: two requests passed the existence check with the same number;
\* one invoice is stored and the other insert was rejected by the unique index
C2_SecondInsertRejected ==
    \E p \in Requests :
        /\ request[p].pc = "done"
        /\ request[p].status = 500
        /\ request[p].message = "duplicate key"
        /\ InvoiceExists(invoices, request[p].invoiceNumber)

\* request p takes the step in which generateInvoiceNumber returns
Returns(p) == request[p].pc = "save" /\ request'[p].pc = "create"

\* C3: of requests that do not overlap, each allocation for a
\* business returns the previously returned counter plus 1.
C3_SeqConsecutive ==
    [][\A p \in Requests :
          (Returns(p) /\ lastIssued[request[p].businessId] # 0)
          => request[p].business.invoiceCounter
                = lastIssued[request[p].businessId] + 1]_vars

\* C4: a request ends in the server error of a duplicate invoiceNumber only
\* after it has retried Invoice.create with another number.
C4_DuplicateErrorOnlyAfterRetry ==
    \A p \in Requests :
        (/\ request[p].pc = "done"
         /\ request[p].status = 500
         /\ request[p].message = "duplicate key")
        => request[p].attempts > 1

\* C5: a createInvoice request that ended in an error leaves the stored
\* invoiceCounter of its business as it was when the request began (requests
\* one after another).
C5_ErrorLeavesCounter ==
    \A p \in Requests :
        (request[p].pc = "done" /\ request[p].status # 201)
        => businesses[request[p].businessId].invoiceCounter = counterAtStart[p]

\* C6: when the counter generateInvoiceNumber is called with equals the stored
\* one and is lower than the highest counter used by the business under its
\* prefix and year, the sync step advances it to that highest used counter.
C6_SyncAdvancesToHighestUsed ==
    [][\A p \in Requests :
          (request[p].pc = "findLatest" /\ request'[p].pc = "exists")
          => LET r == request[p]
                 used == UsedCounters(invoices, r.businessId,
                                      r.business.invoicePrefix, CurrentYear)
             IN  (/\ used # {}
                  /\ r.business.invoiceCounter
                        = businesses[r.businessId].invoiceCounter
                  /\ r.business.invoiceCounter < SetMax(used))
                 => request'[p].business.invoiceCounter = SetMax(used)]_vars

\* C24: a request that has entered generateInvoiceNumber (before the sync or
\* in the increment-and-check loop) reaches the point where the counter is
\* saved and the number returned, also while other requests create invoices.
C24_NumberingTerminates ==
    \A p \in Requests :
        (request[p].pc \in {"findLatest", "exists"}) ~> HoldsNumber(p)

\* C24, its case: the candidate number of a request is found to exist, taken
\* by another request that began before and has not been answered yet, and
\* the request goes round the loop again
C24_CandidateTaken ==
    \E p, q \in Requests :
        /\ p # q
        /\ request[p].pc = "exists"
        /\ InvoiceExists(invoices, request[p].invoiceNumber)
        /\ request[q].pc = "done"
        /\ request[q].status = 201
        /\ request[q].invoiceNumber = request[p].invoiceNumber

\* C25: no step lowers the stored invoiceCounter of a business.
C25_CounterNeverDecreases ==
    [][\A b \in Businesses :
          businesses'[b].invoiceCounter >= businesses[b].invoiceCounter]_vars

\* C26: a step that stores a new invoice gives it a number that no invoice
\* of its business has carried before, deleted invoices included.
C26_NumberNeverReassigned ==
    [][Len(invoices') > Len(invoices)
          => LET new == invoices'[Len(invoices')]
             IN  <<new.businessId, new.invoiceNumber>> \notin carried]_vars

\* C29: the number allocated to a business depends on its own prefix, counter
\* and invoices only: the loop of generateInvoiceNumber steps over a candidate
\* number only when an invoice of the same business carries it (requests one
\* after another).
C29_OwnInvoicesDecide ==
    [][\A p \in Requests :
          (request[p].pc = "exists" /\ request'[p].pc = "exists")
          => \E i \in DOMAIN invoices :
                /\ invoices[i].businessId = request[p].businessId
                /\ invoices[i].invoiceNumber = request'[p].invoiceNumber]_vars

-----------------------------------------------------------------------------
(* One createInvoice request on the empty database, over a wide range of
   customers and amounts *)

\* strings over a blank and a non-blank character
RECURSIVE StringsUpTo(_)
StringsUpTo(n) ==
    IF n = 0 THEN {<<>>}
    ELSE LET shorter == StringsUpTo(n - 1)
         IN  shorter \cup {Append(t, c) : t \in shorter, c \in {" ", "G"}}

GstinValues == {Undefined} \cup {Str(t) : t \in StringsUpTo(MaxGstinLen)}

StateValues == {"Delhi", "Haryana"}

\* whole-currency prices on both sides of the B2CL threshold
PriceValues ==
    {500} \cup {B2CL_THRESHOLD + d : d \in (0 - MaxDelta)..MaxDelta}

WideBodies ==
    {[customerDetails |-> [defined |-> TRUE, name |-> "Asha",
                           gstin |-> g, state |-> st],
      items |-> <<[productName |-> "Widget", hsnCode |-> "8471", unit |-> "PCS",
                   quantity |-> 1, rate |-> Money(price), gstRate |-> rate,
                   discount |-> 0]>>,
      invoiceDate |-> NoDate, dueDate |-> NoDate, notes |-> <<>>,
      isDraft |-> FALSE] :
     g \in GstinValues, st \in StateValues \cup {""},
     price \in PriceValues, rate \in {0, 18}}

\* the first request the server receives
OneStart(p, b, body) ==
    /\ AllIdle
    /\ invoices = <<>>
    /\ \A c \in Businesses : lastIssued[c] = 0
    /\ createInvoice_Start(p, b, body)
    /\ UNCHANGED counterAtStart

OneNext ==
    \/ \E p \in Requests, b \in Businesses, body \in WideBodies : OneStart(p, b, body)
    \/ \E p \in Requests : generateInvoiceNumber_Sync(p)
    \/ \E p \in Requests : Exists(p)
    \/ \E p \in Requests : generateInvoiceNumber_Save(p)
    \/ \E p \in Requests : Create(p)
    \/ \E p \in Requests : createInvoice_Respond(p)

OneSpec == Init /\ [][OneNext]_vars

-----------------------------------------------------------------------------
(* Mongoose documents: what save() writes *)

SaveDoc_WholeDocument(stored, loaded, current) == current

\* doc.save() of a document read earlier: the update sets the modified paths
\* only, the paths whose value differs from the value read; every other path
\* of the stored document stays as it is (the schema sets no optimistic
\* concurrency, and no array is modified)
SaveDoc(stored, loaded, current) ==
    [path \in DOMAIN stored |->
        IF current[path] # loaded[path] THEN current[path] ELSE stored[path]]

\* the place of the invoice with this _id in the collection, 0 when there is none
IndexOfId(coll, _id) ==
    IF \E i \in DOMAIN coll : coll[i]._id = _id
    THEN CHOOSE i \in DOMAIN coll : coll[i]._id = _id
    ELSE 0

\* Invoice.findOne({ _id, businessId })
FindInvoice(coll, _id, businessId) ==
    IF \E i \in DOMAIN coll : coll[i]._id = _id /\ coll[i].businessId = businessId
    THEN IndexOfId(coll, _id)
    ELSE 0

\* the collection without its i-th document
RemoveAt(coll, i) ==
    [j \in 1..(Len(coll) - 1) |-> IF j < i THEN coll[j] ELSE coll[j + 1]]

-----------------------------------------------------------------------------
(* controllers/customerController.js: recordPayment *)

PaymentModes == {"CASH", "UPI", "CARD", "BANK_TRANSFER", "CHEQUE"}

\* validators of paymentSchema
PaymentSchemaValid(payment) ==
    /\ payment.amount >= 0
    /\ payment.paymentMode \in PaymentModes

ExceedsDue_Never(amount, invoice) == FALSE

ExceedsDue_Total(amount, invoice) == amount > invoice.grandTotal

\* if (amount > invoice.amountDue)
ExceedsDue(amount, invoice) == amount > invoice.amountDue

\* the request after its last database step: the response
WorkerDone(r, status, message) ==
    [r EXCEPT !.pc = "done", !.invoice = IdleWorker.invoice,
              !.status = status, !.message = message]

\* lines 212-242: Invoice.findOne, then the check of the amount
recordPayment_Find(w, b, invoiceId, amount) ==
    /\ worker[w].pc = "idle"
    /\ LET i == FindInvoice(invoices, invoiceId, b)
           r == [IdleWorker EXCEPT !.op = "recordPayment", !.businessId = b,
                                   !.invoiceId = invoiceId, !.amount = amount]
       IN  worker' = [worker EXCEPT ![w] =
               IF i = 0 THEN WorkerDone(r, 404, "Invoice not found")
               ELSE IF ExceedsDue(amount, invoices[i].doc)
               THEN WorkerDone([r EXCEPT !.invoice = invoices[i].doc], 400,
                               "Payment amount cannot exceed due amount")
               ELSE [r EXCEPT !.pc = "createPayment", !.invoice = invoices[i].doc]]
    /\ UNCHANGED <<businesses, invoices, carried, request, lastIssued, counterAtStart,
                   calcVars, payments, products, report>>

\* lines 244-253 and the catch: Payment.create
recordPayment_Create(w) ==
    /\ worker[w].pc = "createPayment"
    /\ BagCardinality(payments) < MaxPayments
    /\ LET r == worker[w]
           payment == [businessId |-> r.businessId, invoiceId |-> r.invoiceId,
                       amount |-> r.amount, paymentMode |-> "CASH"]
       IN  IF PaymentSchemaValid(payment)
           THEN /\ payments' = payments (+) SetToBag({payment})
                /\ worker' = [worker EXCEPT ![w].pc = "savePayment"]
           ELSE /\ payments' = payments
                /\ worker' = [worker EXCEPT ![w] =
                                 WorkerDone(r, 500, "validation failed")]
    /\ UNCHANGED <<businesses, invoices, carried, request, lastIssued, counterAtStart,
                   calcVars, products, report>>

\* the answer of doc.save() when the stored document is gone: an update that
\* matches no document is a DocumentNotFoundError; a save with nothing to
\* write is an error or a success, as the version of Mongoose has it
SaveOfMissing(loaded, current) ==
    IF current # loaded THEN {500} ELSE {500, 201}

\* lines 255-271: invoice.amountPaid += amount, then invoice.save()
recordPayment_Save(w) ==
    /\ worker[w].pc = "savePayment"
    /\ LET r == worker[w]
           i == IndexOfId(invoices, r.invoiceId)
           current == preSave([r.invoice EXCEPT !.amountPaid = @ + r.amount])
       IN  IF i = 0
           THEN /\ invoices' = invoices
                /\ \E status \in SaveOfMissing(r.invoice, current) :
                      worker' = [worker EXCEPT ![w] =
                          WorkerDone(r, status,
                                     IF status = 500 THEN "No document found"
                                     ELSE "Payment recorded successfully")]
           ELSE /\ invoices' = [invoices EXCEPT ![i].doc =
                                   SaveDoc(invoices[i].doc, r.invoice, current)]
                /\ worker' = [worker EXCEPT ![w] =
                                 WorkerDone(r, 201, "Payment recorded successfully")]
    /\ UNCHANGED <<businesses, request, lastIssued, counterAtStart,
                   calcVars, payments, products, report, carried>>

-----------------------------------------------------------------------------
(* controllers/invoiceController.js: updateInvoice and deleteInvoice, one
   action per await *)

\* lines 792-812: Invoice.findOne, then the refusal of a paid invoice
updateInvoice_Find(w, b, invoiceId, patch) ==
    /\ worker[w].pc = "idle"
    /\ LET i == FindInvoice(invoices, invoiceId, b)
           r == [IdleWorker EXCEPT !.op = "updateInvoice", !.businessId = b,
                                   !.invoiceId = invoiceId, !.patch = patch]
       IN  worker' = [worker EXCEPT ![w] =
               IF i = 0 THEN WorkerDone(r, 404, "Invoice not found")
               ELSE IF invoices[i].doc.paymentStatus = "paid"
               THEN WorkerDone([r EXCEPT !.invoice = invoices[i].doc], 400,
                               "Cannot edit paid invoice")
               ELSE [r EXCEPT !.pc = "saveUpdate", !.invoice = invoices[i].doc]]
    /\ UNCHANGED <<businesses, invoices, carried, request, lastIssued, counterAtStart,
                   calcVars, payments, products, report>>

\* lines 814-828: notes and dueDate are set on the document read (the schema
\* has no path invoiceTemplate: strict mode does not store it), then invoice.save()
updateInvoice_Save(w) ==
    /\ worker[w].pc = "saveUpdate"
    /\ LET r == worker[w]
           i == IndexOfId(invoices, r.invoiceId)
           patched == [r.invoice EXCEPT
                          !.notes = IF r.patch.notes.isString
                                    THEN trim(r.patch.notes.chars) ELSE @,
                          !.dueDate = IF r.patch.dueDate # NoDate
                                      THEN r.patch.dueDate ELSE @]
           current == preSave(patched)
       IN  IF i = 0
           THEN /\ invoices' = invoices
                /\ \E status \in SaveOfMissing(r.invoice, current) :
                      worker' = [worker EXCEPT ![w] =
                          WorkerDone(r, IF status = 500 THEN 500 ELSE 200,
                                     IF status = 500 THEN "No document found"
                                     ELSE "Invoice updated successfully")]
           ELSE /\ invoices' = [invoices EXCEPT ![i].doc =
                                   SaveDoc(invoices[i].doc, r.invoice, current)]
                /\ worker' = [worker EXCEPT ![w] =
                                 WorkerDone(r, 200, "Invoice updated successfully")]
    /\ UNCHANGED <<businesses, request, lastIssued, counterAtStart,
                   calcVars, payments, products, report, carried>>

\* lines 839-859: Invoice.findOne, then the refusal of a paid invoice
deleteInvoice_Find(w, b, invoiceId) ==
    /\ worker[w].pc = "idle"
    /\ LET i == FindInvoice(invoices, invoiceId, b)
           r == [IdleWorker EXCEPT !.op = "deleteInvoice", !.businessId = b,
                                   !.invoiceId = invoiceId]
       IN  worker' = [worker EXCEPT ![w] =
               IF i = 0 THEN WorkerDone(r, 404, "Invoice not found")
               ELSE IF invoices[i].doc.paymentStatus = "paid"
               THEN WorkerDone([r EXCEPT !.invoice = invoices[i].doc], 400,
                               "Cannot delete paid invoice")
               ELSE [r EXCEPT !.pc = "deleteOne", !.invoice = invoices[i].doc]]
    /\ UNCHANGED <<businesses, invoices, carried, request, lastIssued, counterAtStart,
                   calcVars, payments, products, report>>

\* lines 861-866: invoice.deleteOne() removes the document of this _id, if
\* it is still stored
deleteInvoice_DeleteOne(w) ==
    /\ worker[w].pc = "deleteOne"
    /\ LET i == IndexOfId(invoices, worker[w].invoiceId)
       IN  invoices' = IF i = 0 THEN invoices ELSE RemoveAt(invoices, i)
    /\ worker' = [worker EXCEPT ![w] =
                     WorkerDone(worker[w], 200, "Invoice deleted successfully")]
    /\ UNCHANGED <<businesses, request, lastIssued, counterAtStart,
                   calcVars, payments, products, report, carried>>

\* the response is sent; the slot is free for the next request
worker_Respond(w) ==
    /\ worker[w].pc = "done"
    /\ worker' = [worker EXCEPT ![w] = IdleWorker]
    /\ UNCHANGED <<businesses, invoices, carried, request, lastIssued, counterAtStart,
                   calcVars, payments, products, report>>

-----------------------------------------------------------------------------
(* The ledger: an invoice at a time, and recordPayment, updateInvoice and
   deleteInvoice requests on it, their steps interleaved in any order *)

\* an invoice of grand total 3 and one of grand total 0
PayBody(quantity) ==
    [OkBody EXCEPT !.items = <<Item("Widget", quantity, Money(1), 0, 0)>>]

PayBodies == {PayBody(3), PayBody(0)}

\* payments of a part of the total, of nothing and of less than nothing
PayAmounts == {0 - Money(1), 0, Money(1), Money(2)}

UpdatePatches == {[notes |-> Str(<<"o", "k", " ">>), dueDate |-> DayStart(3)]}

\* the ids a request may name: those of the stored invoices, and one of none
NamedIds == {invoices[i]._id : i \in DOMAIN invoices} \cup {FreshId(UsedIds)}

WorkersIdle == \A w \in Workers : worker[w].pc = "idle"

\* the first invoice is created, that of business b1, while no other request
\* is running
PayStart(p, b, body) ==
    /\ b = "b1"
    /\ AllIdle
    /\ WorkersIdle
    /\ invoices = <<>>
    /\ \A c \in Businesses : lastIssued[c] = 0
    /\ createInvoice_Start(p, b, body)
    /\ UNCHANGED counterAtStart

PayCreate(p) == createInvoice_Create(p, FreshId(UsedIds), FALSE)

PayNext ==
    \/ \E p \in Requests, b \in Businesses, body \in PayBodies : PayStart(p, b, body)
    \/ \E p \in Requests : generateInvoiceNumber_Sync(p)
    \/ \E p \in Requests : Exists(p)
    \/ \E p \in Requests : generateInvoiceNumber_Save(p)
    \/ \E p \in Requests : PayCreate(p)
    \/ \E p \in Requests : createInvoice_Respond(p)
    \/ \E w \in Workers, b \in Businesses, id \in NamedIds, amount \in PayAmounts :
          AllIdle /\ recordPayment_Find(w, b, id, amount)
    \/ \E w \in Workers : recordPayment_Create(w)
    \/ \E w \in Workers : recordPayment_Save(w)
    \/ \E w \in Workers, b \in Businesses, id \in NamedIds, patch \in UpdatePatches :
          AllIdle /\ updateInvoice_Find(w, b, id, patch)
    \/ \E w \in Workers : updateInvoice_Save(w)
    \/ \E w \in Workers, b \in Businesses, id \in NamedIds :
          AllIdle /\ deleteInvoice_Find(w, b, id)
    \/ \E w \in Workers : deleteInvoice_DeleteOne(w)
    \/ \E w \in Workers : worker_Respond(w)

PaySpec == Init /\ [][PayNext]_vars

-----------------------------------------------------------------------------
(* Payments and edits: the claims *)

\* the sum of the amounts of a bag of Payment records
RECURSIVE BagAmount(_)
BagAmount(bag) ==
    IF bag = EmptyBag THEN 0
    ELSE LET payment == CHOOSE x \in BagToSet(bag) : TRUE
         IN  payment.amount + BagAmount(bag (-) SetToBag({payment}))

\* C12: every stored invoice has amountDue = grandTotal - amountPaid.
C12_DueIsTotalLessPaid ==
    \A i \in DOMAIN invoices :
        invoices[i].doc.amountDue
            = invoices[i].doc.grandTotal - invoices[i].doc.amountPaid

\* C12, its case: an invoice that has been paid in part and edited
C12_PaidInPartAndEdited ==
    \E i \in DOMAIN invoices :
        /\ invoices[i].doc.amountPaid > 0
        /\ invoices[i].doc.amountDue > 0
        /\ invoices[i].doc.notes # <<>>

\* C13: the stored paymentStatus of every invoice is the one a case of the
\* rule that applies to its amountPaid and grandTotal gives: unpaid when
\* amountPaid = 0, partial when 0 < amountPaid < grandTotal, paid when
\* amountPaid >= grandTotal.
C13_StatusFollowsAmounts ==
    \A i \in DOMAIN invoices :
        LET d == invoices[i].doc
        IN  \/ d.amountPaid = 0 /\ d.paymentStatus = "unpaid"
            \/ 0 < d.amountPaid /\ d.amountPaid < d.grandTotal
                                /\ d.paymentStatus = "partial"
            \/ d.amountPaid >= d.grandTotal /\ d.paymentStatus = "paid"

PaymentArrives(w) ==
    /\ worker[w].pc = "idle"
    /\ worker'[w].op = "recordPayment"
    /\ FindInvoice(invoices, worker'[w].invoiceId, worker'[w].businessId) # 0

\* C15: a recordPayment request whose amount is greater than the amountDue
\* of the invoice is answered 400; no Payment record is created and the
\* invoice stays as it is.
C15_ExcessRejected ==
    [][\A w \in Workers :
          /\ PaymentArrives(w)
             => LET i == IndexOfId(invoices, worker'[w].invoiceId)
                IN  worker'[w].amount > invoices[i].doc.amountDue
                    => /\ worker'[w].pc = "done"
                       /\ worker'[w].status = 400
                       /\ payments' = payments
                       /\ invoices' = invoices
          /\ (/\ worker[w].op = "recordPayment"
              /\ worker[w].pc = "done"
              /\ worker[w].status = 400
              /\ worker'[w] # worker[w])
             => payments' = payments /\ invoices' = invoices]_vars

\* C15, its case: a payment of more than the rest was refused on an invoice
\* paid in part
C15_RefusedOnPartPaid ==
    \E w \in Workers, i \in DOMAIN invoices :
        /\ worker[w].op = "recordPayment"
        /\ worker[w].pc = "done"
        /\ worker[w].status = 400
        /\ worker[w].invoiceId = invoices[i]._id
        /\ invoices[i].doc.paymentStatus = "partial"
        /\ worker[w].amount > invoices[i].doc.amountDue
        /\ worker[w].amount <= invoices[i].doc.grandTotal

\* C16: a request that reads an invoice whose paymentStatus is paid does not
\* change or remove it: updateInvoice and deleteInvoice are answered 400, and
\* no step of recordPayment changes the stored invoices.
C16_PaidIsFinal ==
    [][\A w \in Workers :
          /\ (/\ worker[w].pc = "idle" /\ worker'[w].pc # "idle"
              /\ worker'[w].op \in {"updateInvoice", "deleteInvoice"}
              /\ LET i == FindInvoice(invoices, worker'[w].invoiceId,
                                      worker'[w].businessId)
                 IN  i # 0 /\ invoices[i].doc.paymentStatus = "paid")
             => worker'[w].pc = "done" /\ worker'[w].status = 400
          /\ (/\ worker[w].op = "recordPayment"
              /\ worker[w].pc = "savePayment"
              /\ worker[w].invoice.paymentStatus = "paid"
              /\ worker'[w] # worker[w])
             => invoices' = invoices]_vars

\* the paths of an invoice that updateInvoice is said to leave alone
UpdateFrame ==
    {"invoiceType", "invoiceNumber", "items", "subtotal", "totalDiscount",
     "totalCGST", "totalSGST", "totalIGST", "grandTotal", "amountPaid"}

\* C18: the save of updateInvoice changes none of invoiceType, invoiceNumber,
\* items, subtotal, the tax totals, grandTotal and amountPaid of its invoice,
\* and no other invoice.
C18_UpdateKeepsFrame ==
    [][\A w \in Workers :
          (worker[w].pc = "saveUpdate" /\ worker'[w].pc = "done")
          => /\ Len(invoices') = Len(invoices)
             /\ \A i \in DOMAIN invoices :
                   /\ invoices'[i]._id = invoices[i]._id
                   /\ invoices'[i].invoiceNumber = invoices[i].invoiceNumber
                   /\ \A path \in UpdateFrame :
                         invoices'[i].doc[path] = invoices[i].doc[path]
                   /\ invoices[i]._id # worker[w].invoiceId
                         => invoices'[i] = invoices[i]]_vars

\* C18, its case: an update was saved between the read and the save of a
\* payment: the invoice carries the new notes and the amount paid meanwhile
C18_SavedAcrossPayment ==
    \E w, v \in Workers, i \in DOMAIN invoices :
        /\ worker[w].op = "updateInvoice"
        /\ worker[w].pc = "done"
        /\ worker[w].status = 200
        /\ worker[w].invoiceId = invoices[i]._id
        /\ worker[v].op = "recordPayment"
        /\ worker[v].pc = "done"
        /\ worker[v].status = 201
        /\ worker[v].invoiceId = invoices[i]._id
        /\ invoices[i].doc.notes # <<>>
        /\ invoices[i].doc.amountPaid > 0

\* the Payment records stored for the invoice of this _id
PaymentsOf(_id) ==
    [payment \in {x \in BagToSet(payments) : x.invoiceId = _id} |-> payments[payment]]

\* C27: when no recordPayment request is between its steps, the amountPaid of
\* every stored invoice is the sum of the amounts of the Payment records
\* stored for it.
C27_PaidIsSumOfPayments ==
    (\A w \in Workers : worker[w].op = "recordPayment" => worker[w].pc = "done")
    => \A i \in DOMAIN invoices :
          invoices[i].doc.amountPaid = BagAmount(PaymentsOf(invoices[i]._id))

\* C30: every stored Payment record refers to a stored invoice.
C30_PaymentHasInvoice ==
    \A payment \in BagToSet(payments) :
        \E i \in DOMAIN invoices : invoices[i]._id = payment.invoiceId

-----------------------------------------------------------------------------
(* controllers/reportController.js: getTaxSummary *)

\* Invoice.aggregate $match: the invoices of the business that are not drafts
\* and are dated from start to end
MatchedInvoices_WithDrafts(coll, businessId, start, end) ==
    SelectSeq(coll, LAMBDA inv :
        /\ inv.businessId = businessId
        /\ inv.doc.invoiceDate >= start
        /\ inv.doc.invoiceDate <= end)

MatchedInvoices(coll, businessId, start, end) ==
    SelectSeq(coll, LAMBDA inv :
        /\ inv.businessId = businessId
        /\ inv.doc.isDraft = FALSE
        /\ inv.doc.invoiceDate >= start
        /\ inv.doc.invoiceDate <= end)

\* $unwind: '$items': one document per line item
RECURSIVE Unwind(_)
Unwind(matched) ==
    IF Len(matched) = 0 THEN <<>>
    ELSE Head(matched).doc.items \o Unwind(Tail(matched))

\* the $sum accumulator over one field of the documents of a group
RECURSIVE SumField(_, _)
SumField(docs, field) ==
    IF Len(docs) = 0 THEN 0 ELSE Head(docs)[field] + SumField(Tail(docs), field)

\* $group by '$items.gstRate': the row of one rate
GroupRow(unwound, gstRate) ==
    LET group == SelectSeq(unwound, LAMBDA it : it.gstRate = gstRate)
    IN  [_id |-> gstRate,
         taxableAmount |-> SumField(group, "taxableAmount"),
         cgst |-> SumField(group, "cgst"),
         sgst |-> SumField(group, "sgst"),
         igst |-> SumField(group, "igst"),
         totalTax |-> SumField(group, "cgst") + SumField(group, "sgst")
                      + SumField(group, "igst"),
         totalAmount |-> SumField(group, "totalAmount"),
         invoiceCount |-> Len(group)]

\* $sort: { _id: 1 }
RECURSIVE SortAscending(_)
SortAscending(S) ==
    IF S = {} THEN <<>>
    ELSE LET least == CHOOSE x \in S : \A y \in S : x <= y
         IN  <<least>> \o SortAscending(S \ {least})

\* the aggregation pipeline
TaxSummary(coll, businessId, start, end) ==
    LET unwound == Unwind(MatchedInvoices(coll, businessId, start, end))
        ids == SortAscending({unwound[i].gstRate : i \in DOMAIN unwound})
    IN  [i \in DOMAIN ids |-> GroupRow(unwound, ids[i])]

\* summary.forEach(item => { totals.x += item.x })
TaxTotals(summary) ==
    [taxableAmount |-> SumField(summary, "taxableAmount"),
     cgst |-> SumField(summary, "cgst"),
     sgst |-> SumField(summary, "sgst"),
     igst |-> SumField(summary, "igst"),
     totalTax |-> SumField(summary, "totalTax"),
     totalAmount |-> SumField(summary, "totalAmount"),
     invoiceCount |-> SumField(summary, "invoiceCount")]

\* getTaxSummary, lines 198-300: startDate and endDate are days of the
\* calendar ('YYYY-MM-DD', which new Date reads as the first instant of the
\* day in UTC), or NoDate when the query leaves them out; tz is the time
\* zone of the process
getTaxSummary(b, startDate, endDate, tz) ==
    /\ report = NoReport
    /\ LET start == DayStart(startDate)
           end == setHours(DayStart(endDate), tz)
       IN  report' =
               IF startDate = NoDate \/ endDate = NoDate
               THEN [op |-> "getTaxSummary", businessId |-> b, status |-> 400,
                     message |-> "Start date and end date are required"]
               ELSE IF start > end
               THEN [op |-> "getTaxSummary", businessId |-> b, status |-> 400,
                     message |-> "Start date must be before end date"]
               ELSE LET summary == TaxSummary(invoices, b, start, end)
                    IN  [op |-> "getTaxSummary", businessId |-> b, status |-> 200,
                         startDate |-> startDate, endDate |-> endDate, tz |-> tz,
                         start |-> start, end |-> end,
                         byRate |-> summary, totals |-> TaxTotals(summary)]
    /\ UNCHANGED <<businesses, invoices, carried, request, lastIssued, counterAtStart,
                   calcVars, payments, products, worker>>

-----------------------------------------------------------------------------
(* controllers/reportController.js: getSalesRegister and getGSTR1Report *)

\* Invoice.find({...}).sort({ invoiceDate: 1 }): the matching invoices in
\* ascending order of invoiceDate; the order among equal dates is not fixed
SortedByDate(found) ==
    LET N == DOMAIN found
        orders == {q \in [N -> N] :
                      /\ \A i, j \in N : i # j => q[i] # q[j]
                      /\ \A i, j \in N : i < j =>
                             found[q[i]].doc.invoiceDate <= found[q[j]].doc.invoiceDate}
    IN  {[i \in N |-> found[q[i]]] : q \in orders}

\* getSalesRegister, lines 8-66
getSalesRegister(b, startDate, endDate, tz) ==
    /\ report = NoReport
    /\ LET start == DayStart(startDate)
           end == setHours(DayStart(endDate), tz)
       IN  IF startDate = NoDate \/ endDate = NoDate
           THEN report' = [op |-> "getSalesRegister", businessId |-> b, status |-> 400,
                           message |-> "Start date and end date are required"]
           ELSE IF start > end
           THEN report' = [op |-> "getSalesRegister", businessId |-> b, status |-> 400,
                           message |-> "Start date must be before end date"]
           ELSE \E found \in SortedByDate(MatchedInvoices(invoices, b, start, end)) :
                   report' = [op |-> "getSalesRegister", businessId |-> b,
                              status |-> 200,
                              startDate |-> startDate, endDate |-> endDate, tz |-> tz,
                              start |-> start, end |-> end,
                              data |-> found, count |-> Len(found)]
    /\ UNCHANGED <<businesses, invoices, carried, request, lastIssued, counterAtStart,
                   calcVars, payments, products, worker>>

\* invoices.filter(inv => inv.invoiceType === invoiceType)
FilterByType_NotB2B(found, invoiceType) ==
    SelectSeq(found, LAMBDA inv :
        IF invoiceType = "B2B" THEN inv.doc.invoiceType = "B2B"
        ELSE inv.doc.invoiceType # "B2B")

FilterByType(found, invoiceType) ==
    SelectSeq(found, LAMBDA inv : inv.doc.invoiceType = invoiceType)

\* the keys of b2csAggregated / b2clAggregated are the gstRate values as
\* strings; Object.values lists integer keys in ascending order
RatesOf(unwound) == SortAscending({unwound[i].gstRate : i \in DOMAIN unwound})

\* lines 110-131: the rows of the B2CS bucket, which have no igst field
b2csAggregated(b2csInvoices) ==
    LET unwound == Unwind(b2csInvoices)
        rates == RatesOf(unwound)
    IN  [r \in DOMAIN rates |->
            LET group == SelectSeq(unwound, LAMBDA it : it.gstRate = rates[r])
            IN  [gstRate |-> rates[r],
                 taxableAmount |-> SumField(group, "taxableAmount"),
                 cgst |-> SumField(group, "cgst"),
                 sgst |-> SumField(group, "sgst"),
                 totalAmount |-> SumField(group, "totalAmount"),
                 count |-> Len(group)]]

\* lines 133-152: the rows of the B2CL bucket, which have no cgst and no
\* sgst field
b2clAggregated(b2clInvoices) ==
    LET unwound == Unwind(b2clInvoices)
        rates == RatesOf(unwound)
    IN  [r \in DOMAIN rates |->
            LET group == SelectSeq(unwound, LAMBDA it : it.gstRate = rates[r])
            IN  [gstRate |-> rates[r],
                 taxableAmount |-> SumField(group, "taxableAmount"),
                 igst |-> SumField(group, "igst"),
                 totalAmount |-> SumField(group, "totalAmount"),
                 count |-> Len(group)]]

\* getGSTR1Report, lines 71-193
getGSTR1Report(b, startDate, endDate, tz) ==
    /\ report = NoReport
    /\ LET start == DayStart(startDate)
           end == setHours(DayStart(endDate), tz)
       IN  IF startDate = NoDate \/ endDate = NoDate
           THEN report' = [op |-> "getGSTR1Report", businessId |-> b, status |-> 400,
                           message |-> "Start date and end date are required"]
           ELSE IF start > end
           THEN report' = [op |-> "getGSTR1Report", businessId |-> b, status |-> 400,
                           message |-> "Start date must be before end date"]
           ELSE \E found \in SortedByDate(MatchedInvoices(invoices, b, start, end)) :
                   LET b2bInvoices == FilterByType(found, "B2B")
                       b2csInvoices == FilterByType(found, "B2CS")
                       b2clInvoices == FilterByType(found, "B2CL")
                   IN  report' =
                           [op |-> "getGSTR1Report", businessId |-> b, status |-> 200,
                            startDate |-> startDate, endDate |-> endDate, tz |-> tz,
                            start |-> start, end |-> end,
                            b2b |-> b2bInvoices,
                            b2cs |-> b2csAggregated(b2csInvoices),
                            b2cl |-> b2clAggregated(b2clInvoices),
                            summary |-> [b2bCount |-> Len(b2bInvoices),
                                         b2csCount |-> Len(b2csInvoices),
                                         b2clCount |-> Len(b2clInvoices)]]
    /\ UNCHANGED <<businesses, invoices, carried, request, lastIssued, counterAtStart,
                   calcVars, payments, products, worker>>

\* the response of the report is sent
report_Respond ==
    /\ report # NoReport
    /\ report' = NoReport
    /\ UNCHANGED <<businesses, invoices, carried, request, lastIssued, counterAtStart,
                   calcVars, payments, products, worker>>

-----------------------------------------------------------------------------
(* Invoices of several items, the products they leave behind, and the tax
   summary over them: createInvoice requests one after another *)

\* taxable amounts 100, 200, 300 at 18% and 40 at 5%
Item100 == Item("Widget", 1, Money(100), 0, 18)

Item200 == Item("WIDGET", 2, Money(110), Money(20), 18)

Item300 == Item("Gear", 3, Money(100), 0, 18)

Item40 == Item("Gear", 1, Money(50), Money(10), 5)

ShopBody(items, state, invoiceDate, isDraft) ==
    [customerDetails |-> [defined |-> TRUE, name |-> "Asha",
                          gstin |-> Undefined, state |-> state],
     items |-> items, invoiceDate |-> invoiceDate, dueDate |-> NoDate,
     notes |-> <<>>, isDraft |-> isDraft]

\* a body without customerDetails
NoCustomerBody ==
    [OkBody EXCEPT !.customerDetails =
        [defined |-> FALSE, name |-> "", gstin |-> Undefined, state |-> ""]]

ShopBodies ==
    {ShopBody(<<Item100>>, "", NoDate, FALSE),
     ShopBody(<<Item200, Item300>>, "", DayStart(1), FALSE),
     ShopBody(<<Item100, Item40>>, "Haryana", NoDate, FALSE),
     ShopBody(<<Item300>>, "", NoDate, TRUE),
     ShopBody(<<Item40>>, "Delhi", EndOfDay(DayStart(3)), FALSE),
     NoNameBody, NoItemsBody, NoCustomerBody}

\* the days a report may be asked for
ReportDays == {NoDate, 1, 2, 3}

\* a request is taken up when the response of the report before it is sent
Quiet == report = NoReport

ShopCreate(p) == createInvoice_Create(p, NoId, TRUE)

ShopNext ==
    \/ \E p \in Requests, b \in Businesses, body \in ShopBodies :
          Quiet /\ SeqStart(p, b, body)
    \/ \E p \in Requests : Quiet /\ generateInvoiceNumber_Sync(p)
    \/ \E p \in Requests : Quiet /\ Exists(p)
    \/ \E p \in Requests : Quiet /\ generateInvoiceNumber_Save(p)
    \/ \E p \in Requests : Quiet /\ ShopCreate(p)
    \/ \E p \in Requests : Quiet /\ createInvoice_FindProduct(p)
    \/ \E p \in Requests : Quiet /\ createInvoice_WriteProduct(p)
    \/ \E p \in Requests : Quiet /\ createInvoice_Respond(p)
    \/ \E b \in Businesses, startDate \in ReportDays, endDate \in ReportDays,
          tz \in TimeZones :
          AllIdle /\ getTaxSummary(b, startDate, endDate, tz)
    \/ report_Respond

ShopSpec == Init /\ [][ShopNext]_vars

-----------------------------------------------------------------------------
(* The three reports over invoices of every type: createInvoice requests of
   one business, one after another, and reports asked by both businesses *)

\* a taxable amount above the B2CL threshold, at 18%
ItemLarge == Item("Loom", 1, Money(B2CL_THRESHOLD), 0, 18)

Registered(state) ==
    [defined |-> TRUE, name |-> "Ravi", gstin |-> Str(<<"G">>), state |-> state]

FilingBodies ==
    {[ShopBody(<<Item100>>, "", NoDate, FALSE)
          EXCEPT !.customerDetails = Registered("")],
     ShopBody(<<Item100>>, "", DayStart(2), FALSE),
     ShopBody(<<Item200, Item40>>, "Punjab", NoDate, FALSE),
     ShopBody(<<ItemLarge, Item40>>, "Punjab", EndOfDay(DayStart(3)), FALSE),
     ShopBody(<<Item300>>, "", NoDate, TRUE)}

FilingStart(p, b, body) == b = "b1" /\ SeqStart(p, b, body)

FilingNext ==
    \/ \E p \in Requests, b \in Businesses, body \in FilingBodies :
          Quiet /\ FilingStart(p, b, body)
    \/ \E p \in Requests : Quiet /\ generateInvoiceNumber_Sync(p)
    \/ \E p \in Requests : Quiet /\ SeqExists(p)
    \/ \E p \in Requests : Quiet /\ generateInvoiceNumber_Save(p)
    \/ \E p \in Requests : Quiet /\ Create(p)
    \/ \E p \in Requests : Quiet /\ createInvoice_Respond(p)
    \/ \E b \in Businesses, startDate \in ReportDays, endDate \in ReportDays,
          tz \in TimeZones :
          AllIdle /\ getSalesRegister(b, startDate, endDate, tz)
    \/ \E b \in Businesses, startDate \in ReportDays, endDate \in ReportDays,
          tz \in TimeZones :
          AllIdle /\ getGSTR1Report(b, startDate, endDate, tz)
    \/ \E b \in Businesses, startDate \in ReportDays, endDate \in ReportDays,
          tz \in TimeZones :
          AllIdle /\ getTaxSummary(b, startDate, endDate, tz)
    \/ report_Respond

FilingSpec == Init /\ [][FilingNext]_vars

-----------------------------------------------------------------------------
(* Invoice totals, rejected requests and the tax summary: the claims *)

\* the sum of the values of a function over the indices in S
RECURSIVE Sigma(_, _)
Sigma(f, S) ==
    IF S = {} THEN 0
    ELSE LET k == CHOOSE k \in S : TRUE
         IN  f[k] + Sigma(f, S \ {k})

\* C11: in every stored invoice, subtotal, totalDiscount and the three tax
\* totals are the sums over the items of quantity * rate, discount, cgst, sgst
\* and igst; grandTotal = subtotal - totalDiscount + totalCGST + totalSGST +
\* totalIGST, and grandTotal is the sum of the items' totalAmount.
C11_TotalsAreSums ==
    \A i \in DOMAIN invoices :
        LET d == invoices[i].doc
            K == DOMAIN d.items
        IN  /\ d.subtotal = Sigma([k \in K |-> d.items[k].quantity * d.items[k].rate], K)
            /\ d.totalDiscount = Sigma([k \in K |-> d.items[k].discount], K)
            /\ d.totalCGST = Sigma([k \in K |-> d.items[k].cgst], K)
            /\ d.totalSGST = Sigma([k \in K |-> d.items[k].sgst], K)
            /\ d.totalIGST = Sigma([k \in K |-> d.items[k].igst], K)
            /\ d.grandTotal = d.subtotal - d.totalDiscount + d.totalCGST
                              + d.totalSGST + d.totalIGST
            /\ d.grandTotal = Sigma([k \in K |-> d.items[k].totalAmount], K)

\* C11, its case: a stored invoice of two items at different rates, with a
\* discount and a tax
C11_TwoItemsDiscounted ==
    \E i \in DOMAIN invoices :
        LET d == invoices[i].doc
        IN  /\ Len(d.items) = 2
            /\ d.items[1].gstRate # d.items[2].gstRate
            /\ d.totalDiscount > 0
            /\ d.totalIGST > 0

\* C17: a createInvoice request answered 400 (customer name missing, no items)
\* has been given no number, and its steps leave the stored invoiceCounter of
\* every business, the invoices and the products as they are.
C17_RejectedChangesNothing ==
    [][\A p \in Requests :
          (\/ request[p].pc = "idle" /\ request'[p].status = 400
           \/ request[p].pc = "done" /\ request[p].status = 400
                                     /\ request'[p].pc = "idle")
          => /\ businesses' = businesses
             /\ invoices' = invoices
             /\ products' = products
             /\ lastIssued' = lastIssued
             /\ request[p].invoiceNumber = <<>>
             /\ request'[p].invoiceNumber = <<>>]_vars

\* C17, its case: a request was rejected when its business had been given a
\* number and had products
C17_RejectedAfterSales ==
    \E p \in Requests :
        /\ request[p].pc = "done"
        /\ request[p].status = 400
        /\ businesses[request[p].businessId].invoiceCounter > 0
        /\ \E i \in DOMAIN products : products[i].businessId = request[p].businessId

\* the line items the tax summary of report covers: <<invoice, item>> places
ReportedPlaces ==
    {pl \in UNION {{<<i, k>> : k \in DOMAIN invoices[i].doc.items} :
                       i \in DOMAIN invoices} :
        /\ invoices[pl[1]].businessId = report.businessId
        /\ invoices[pl[1]].doc.isDraft = FALSE
        /\ invoices[pl[1]].doc.invoiceDate >= report.start
        /\ invoices[pl[1]].doc.invoiceDate <= report.end}

PlaceItem(pl) == invoices[pl[1]].doc.items[pl[2]]

\* C20: the tax summary has one row per GST rate found among the line items
\* of the business's non-draft invoices dated in the range; a row carries the
\* sums of taxableAmount, cgst, sgst, igst and totalAmount and the number of
\* those line items at its rate; the totals are the sums over the rows.
C20_TaxSummaryByRate ==
    (report.op = "getTaxSummary" /\ report.status = 200)
    => LET rows == report.byRate
           R == DOMAIN rows
           At(rate) == {pl \in ReportedPlaces : PlaceItem(pl).gstRate = rate}
           Sum(rate, field) ==
               Sigma([pl \in At(rate) |-> PlaceItem(pl)[field]], At(rate))
       IN  /\ {rows[j]._id : j \in R} = {PlaceItem(pl).gstRate : pl \in ReportedPlaces}
           /\ \A j, k \in R : j # k => rows[j]._id # rows[k]._id
           /\ \A j \in R :
                 /\ rows[j].taxableAmount = Sum(rows[j]._id, "taxableAmount")
                 /\ rows[j].cgst = Sum(rows[j]._id, "cgst")
                 /\ rows[j].sgst = Sum(rows[j]._id, "sgst")
                 /\ rows[j].igst = Sum(rows[j]._id, "igst")
                 /\ rows[j].totalAmount = Sum(rows[j]._id, "totalAmount")
                 /\ rows[j].invoiceCount = Cardinality(At(rows[j]._id))
           /\ \A field \in {"taxableAmount", "cgst", "sgst", "igst", "totalTax",
                            "totalAmount", "invoiceCount"} :
                 report.totals[field] = Sigma([j \in R |-> rows[j][field]], R)

\* C20, its case: three line items at 18% with taxable amounts 100, 200 and
\* 300, spread over two invoices, give a row of taxableAmount 600 and count 3,
\* beside the row of another rate
C20_SixHundredInThree ==
    /\ report.op = "getTaxSummary"
    /\ report.status = 200
    /\ Len(report.byRate) = 2
    /\ \E j \in DOMAIN report.byRate :
          /\ report.byRate[j]._id = 18
          /\ report.byRate[j].taxableAmount = Money(600)
          /\ report.byRate[j].invoiceCount = 3

-----------------------------------------------------------------------------
(* The sales register, the GSTR-1 report and the date range: the claims *)

\* the stored invoices of the business of report that are not drafts and are
\* dated in the range report has computed
InRange ==
    {i \in DOMAIN invoices :
        /\ invoices[i].businessId = report.businessId
        /\ invoices[i].doc.isDraft = FALSE
        /\ invoices[i].doc.invoiceDate >= report.start
        /\ invoices[i].doc.invoiceDate <= report.end}

OfType(invoiceType) == {i \in InRange : invoices[i].doc.invoiceType = invoiceType}

\* the <<invoice, item>> places of the line items of the invoices in S
PlacesOf(S) ==
    UNION {{<<i, k>> : k \in DOMAIN invoices[i].doc.items} : i \in S}

\* a field of a row; a field the row does not have counts as 0
Carried(row, field) == IF field \in DOMAIN row THEN row[field] ELSE 0

\* the rows are one per GST rate of the line items of the invoices in S, and
\* carry the sums of the five amounts and the count over those line items
RowsCarrySums(rows, S) ==
    LET R == DOMAIN rows
        At(rate) == {pl \in PlacesOf(S) : PlaceItem(pl).gstRate = rate}
        Sum(rate, field) ==
            Sigma([pl \in At(rate) |-> PlaceItem(pl)[field]], At(rate))
    IN  /\ {rows[j].gstRate : j \in R} = {PlaceItem(pl).gstRate : pl \in PlacesOf(S)}
        /\ \A j, k \in R : j # k => rows[j].gstRate # rows[k].gstRate
        /\ \A j \in R :
              /\ \A field \in {"taxableAmount", "cgst", "sgst", "igst", "totalAmount"} :
                    Carried(rows[j], field) = Sum(rows[j].gstRate, field)
              /\ rows[j].count = Cardinality(At(rows[j].gstRate))
              /\ rows[j].totalAmount =
                    Carried(rows[j], "taxableAmount") + Carried(rows[j], "cgst")
                    + Carried(rows[j], "sgst") + Carried(rows[j], "igst")

\* C21: in the GSTR-1 report the B2CS bucket and the B2CL bucket hold one row
\* per GST rate; a row carries the sums of taxableAmount, cgst, sgst, igst and
\* totalAmount and the count over the line items of the bucket's invoices at
\* its rate, and its totalAmount = taxableAmount + cgst + sgst + igst.
C21_BucketRowsCarrySums ==
    (report.op = "getGSTR1Report" /\ report.status = 200)
    => /\ RowsCarrySums(report.b2cs, OfType("B2CS"))
       /\ RowsCarrySums(report.b2cl, OfType("B2CL"))

\* C22: the GSTR-1 report counts every non-draft invoice of the range in the
\* bucket of its invoiceType and in no other; the B2B bucket holds each B2B
\* invoice of the range once, as stored, and the rows of the B2CS and the
\* B2CL bucket count the line items of the invoices of their own type only.
C22_BucketsPartition ==
    (report.op = "getGSTR1Report" /\ report.status = 200)
    => LET Counted(rows) == Sigma([j \in DOMAIN rows |-> rows[j].count], DOMAIN rows)
           Taxable(rows) ==
               Sigma([j \in DOMAIN rows |-> rows[j].taxableAmount], DOMAIN rows)
           TaxableOf(S) ==
               Sigma([pl \in PlacesOf(S) |-> PlaceItem(pl).taxableAmount], PlacesOf(S))
       IN  /\ \A i \in InRange : invoices[i].doc.invoiceType \in {"B2B", "B2CS", "B2CL"}
           /\ report.summary.b2bCount = Cardinality(OfType("B2B"))
           /\ report.summary.b2csCount = Cardinality(OfType("B2CS"))
           /\ report.summary.b2clCount = Cardinality(OfType("B2CL"))
           /\ report.summary.b2bCount + report.summary.b2csCount
                 + report.summary.b2clCount = Cardinality(InRange)
           /\ Len(report.b2b) = Cardinality(OfType("B2B"))
           /\ {report.b2b[j] : j \in DOMAIN report.b2b}
                 = {invoices[i] : i \in OfType("B2B")}
           /\ Counted(report.b2cs) = Cardinality(PlacesOf(OfType("B2CS")))
           /\ Counted(report.b2cl) = Cardinality(PlacesOf(OfType("B2CL")))
           /\ Taxable(report.b2cs) = TaxableOf(OfType("B2CS"))
           /\ Taxable(report.b2cl) = TaxableOf(OfType("B2CL"))

\* C22, its case: a report over a B2B, a B2CS and a B2CL invoice, while a
\* draft is stored
C22_OneOfEachType ==
    /\ report.op = "getGSTR1Report"
    /\ report.status = 200
    /\ Len(report.b2b) = 1
    /\ Len(report.b2b[1].doc.items) = 1
    /\ report.summary.b2csCount = 1
    /\ report.summary.b2clCount = 1
    /\ Len(report.b2cl) = 2

\* the last instant of the calendar day numbered day, in the time zone tz
LastInstantOfDay(day, tz) == DayStart(day + 1) - 1 - tz

\* the invoices a report asked with startDate, endDate is to include, when
\* calendar days are those of the time zone tz: the non-draft invoices of the
\* business dated from the start date to the last instant of the end date's
\* calendar day
ToInclude(tz) ==
    {i \in DOMAIN invoices :
        /\ invoices[i].businessId = report.businessId
        /\ invoices[i].doc.isDraft = FALSE
        /\ invoices[i].doc.invoiceDate >= DayStart(report.startDate)
        /\ invoices[i].doc.invoiceDate <= LastInstantOfDay(report.endDate, tz)}

\* report covers the invoices of S: the sales register lists them, the
\* GSTR-1 buckets count them, the tax summary counts their line items
Covers(S) ==
    /\ report.op = "getSalesRegister"
       => /\ {report.data[j] : j \in DOMAIN report.data} = {invoices[i] : i \in S}
          /\ report.count = Cardinality(S)
    /\ report.op = "getGSTR1Report"
       => report.summary.b2bCount + report.summary.b2csCount
            + report.summary.b2clCount = Cardinality(S)
    /\ report.op = "getTaxSummary"
       => report.totals.invoiceCount = Cardinality(PlacesOf(S))

\* C23: every report (sales register, GSTR-1, tax summary) includes a
\* non-draft invoice exactly when its invoiceDate lies between the start date
\* and the last instant of the end date's calendar day, both included; the
\* calendar day is taken in UTC or in the time zone of the server, whichever
\* fits the report.
C23_RangeEndsWithEndDay ==
    (report.op # "none" /\ report.status = 200)
    => Covers(ToInclude(0)) \/ Covers(ToInclude(report.tz))

\* C28: in every stored invoice either every item has igst = 0 and
\* cgst = sgst, or every item has cgst = sgst = 0; totalIGST > 0 implies
\* totalCGST = totalSGST = 0, and totalCGST = totalSGST.
C28_OneTaxMode ==
    \A i \in DOMAIN invoices :
        LET d == invoices[i].doc
            K == DOMAIN d.items
        IN  /\ \/ \A k \in K : d.items[k].igst = 0 /\ d.items[k].cgst = d.items[k].sgst
               \/ \A k \in K : d.items[k].cgst = 0 /\ d.items[k].sgst = 0
            /\ d.totalIGST > 0 => d.totalCGST = 0 /\ d.totalSGST = 0
            /\ d.totalCGST = d.totalSGST

\* C28, its case: an invoice of two taxed items within the state and an
\* invoice of two taxed items across states are stored
C28_BothModesStored ==
    \E i, j \in DOMAIN invoices :
        /\ Len(invoices[i].doc.items) = 2
        /\ \A k \in 1..2 : invoices[i].doc.items[k].cgst > 0
        /\ Len(invoices[j].doc.items) = 2
        /\ \A k \in 1..2 : invoices[j].doc.items[k].igst > 0

\* the invoice that request p, answered 201, has stored
StoredBy(p) ==
    CHOOSE i \in DOMAIN invoices :
        invoices[i].invoiceNumber = request[p].invoiceNumber

-----------------------------------------------------------------------------
(* The pure functions of utils/gstCalculator.js applied to drawn inputs *)

\* taxable amounts: the small ones, and a few of the size of real invoices
TaxableValues ==
    {Money(t) : t \in 0..MaxTaxable} \cup {Money(1000), Money(B2CL_THRESHOLD)}

\* the permitted rates and two others
RateValues == GST_RATES \cup {3, 40}

\* invoice amounts: the threshold, and up to MaxDelta of the smallest money
\* unit and of whole currency units away from it, and the two ends
AmountValues ==
    {Money(B2CL_THRESHOLD) + d : d \in (0 - MaxDelta)..MaxDelta}
    \cup {Money(B2CL_THRESHOLD + d) : d \in (0 - MaxDelta)..MaxDelta}
    \cup {0, Money(1180), Money(300000), Money(9999999)}

CalcInputs ==
    {[op |-> "calculateGST", taxableAmount |-> t, gstRate |-> r,
      businessState |-> bs, customerState |-> cs] :
     t \in TaxableValues, r \in RateValues, bs \in StateValues, cs \in StateValues}
    \cup
    {[op |-> "determineInvoiceType", gstin |-> g, businessState |-> bs,
      customerState |-> cs, amount |-> a] :
     g \in GstinValues, bs \in StateValues, cs \in StateValues, a \in AmountValues}

CalcInit == InitDb({"INV"}) /\ calcIn \in CalcInputs /\ calcOut = NoCalc

Apply_calculateGST ==
    /\ calcIn.op = "calculateGST"
    /\ calcOut = NoCalc
    /\ calcOut' = [op |-> "calculateGST",
                   res |-> calculateGST(calcIn.taxableAmount, calcIn.gstRate,
                                        calcIn.businessState, calcIn.customerState)]
    /\ UNCHANGED <<calcIn, dbVars>>

Apply_determineInvoiceType ==
    /\ calcIn.op = "determineInvoiceType"
    /\ calcOut = NoCalc
    /\ calcOut' = [op |-> "determineInvoiceType",
                   res |-> determineInvoiceType(calcIn.gstin, calcIn.businessState,
                                                calcIn.customerState, calcIn.amount)]
    /\ UNCHANGED <<calcIn, dbVars>>

CalcNext == Apply_calculateGST \/ Apply_determineInvoiceType

CalcSpec == CalcInit /\ [][CalcNext]_vars

-----------------------------------------------------------------------------
(* GST split and classification: the claims *)

\* a GSTIN that is missing, empty or made of blanks only
Blank(chars) == \A i \in DOMAIN chars : chars[i] = " "

\* C7: with equal states, a permitted rate and a taxable amount >= 0,
\* cgst = sgst = (taxableAmount * rate / 100) / 2 and igst = 0.
C7_IntrastateSplit ==
    (/\ calcOut.op = "calculateGST"
     /\ calcIn.businessState = calcIn.customerState
     /\ calcIn.gstRate \in GST_RATES
     /\ calcIn.taxableAmount >= 0)
    => /\ calcOut.res.cgst = calcOut.res.sgst
       /\ 2 * 100 * calcOut.res.cgst = calcIn.taxableAmount * calcIn.gstRate
       /\ calcOut.res.igst = 0

\* C7, its case: an intrastate split with a tax to halve
C7_IntrastateTaxed ==
    /\ calcOut.op = "calculateGST"
    /\ calcIn.businessState = calcIn.customerState
    /\ calcIn.gstRate \in GST_RATES
    /\ calcOut.res.cgst > 0

\* C8: with different states, any rate and a taxable amount >= 0,
\* cgst = sgst = 0 and igst = taxableAmount * rate / 100.
C8_InterstateSplit ==
    (/\ calcOut.op = "calculateGST"
     /\ calcIn.businessState # calcIn.customerState
     /\ calcIn.taxableAmount >= 0)
    => /\ calcOut.res.cgst = 0
       /\ calcOut.res.sgst = 0
       /\ 100 * calcOut.res.igst = calcIn.taxableAmount * calcIn.gstRate

\* C8, its case: an interstate split at a rate outside the permitted ones
C8_InterstateTaxed ==
    /\ calcOut.op = "calculateGST"
    /\ calcIn.businessState # calcIn.customerState
    /\ calcIn.gstRate \notin GST_RATES
    /\ calcOut.res.igst > 0

\* C9: without GSTIN the type is B2CL exactly when the states differ and the
\* amount is strictly greater than 250000, and B2CS otherwise.
C9_B2CLExactlyInterstateLarge ==
    (/\ calcOut.op = "determineInvoiceType"
     /\ Blank(calcIn.gstin.chars))
    => calcOut.res =
          IF /\ calcIn.businessState # calcIn.customerState
             /\ calcIn.amount > B2CL_THRESHOLD * MoneyScale
          THEN "B2CL" ELSE "B2CS"

\* C9, its case: an interstate sale without GSTIN of exactly 250000 is B2CS
C9_ThresholdIsSmall ==
    /\ calcOut.op = "determineInvoiceType"
    /\ ~calcIn.gstin.isString
    /\ calcIn.businessState # calcIn.customerState
    /\ calcIn.amount = B2CL_THRESHOLD * MoneyScale
    /\ calcOut.res = "B2CS"

\* C10: a stored invoice is typed B2B if and only if the GSTIN of its
\* customer is present and non-blank.
C10_B2BIffGstinNonBlank ==
    \A i \in DOMAIN invoices :
        invoices[i].doc.invoiceType = "B2B"
            <=> ~Blank(invoices[i].doc.customerDetails.gstin)

====
